---------------------------- MODULE Spec2Model ----------------------------
(***************************************************************************)
(* Model of downloader.py: a batch downloader that reads URLs from a file, *)
(* derives wiki/legacy/YYYY-MM-filename from each URL, resolves name       *)
(* collisions, downloads with bounded retries and writes a CSV mapping.    *)
(*                                                                         *)
(* Text is modelled as sequences of characters (one-character strings).    *)
(* The element "sup2" stands for the single character U+00B2 (superscript  *)
(* two), for which Python's str.isdigit() is true although it is not a     *)
(* decimal digit.  The elements "LF", "CR" and "TAB" stand for the control *)
(* characters of those names and "dq" for the double quote.                *)
(***************************************************************************)
EXTENDS Integers, Sequences, FiniteSets, TLC

(***************************************************************************)
(* Characters and basic string operations (Python str methods).            *)
(***************************************************************************)
AsciiDigits == {"0", "1", "2", "3", "4", "5", "6", "7", "8", "9"}

\* Characters c with c.isdigit() that are not decimal digits (Numeric_Type=Digit).
OtherDigits == {"sup2"}

AsciiLetters ==
    {"a", "b", "c", "d", "e", "f", "g", "h", "i", "j", "k", "l", "m",
     "n", "o", "p", "q", "r", "s", "t", "u", "v", "w", "x", "y", "z", "M"}

\* str.strip() without arguments removes whitespace.
Whitespace == {" ", "TAB", "LF", "CR"}

\* str.isdigit(): every character is a digit and there is at least one.
IsDigitStr(s) == Len(s) > 0 /\ \A i \in 1..Len(s) : s[i] \in AsciiDigits \cup OtherDigits

\* s[i:] of Python with 1-based i: the suffix starting at position i.
From(s, i) == SubSeq(s, i, Len(s))

\* s[:i-1] of Python with 1-based i: the prefix before position i.
Before(s, i) == SubSeq(s, 1, i - 1)

\* str.find(c): smallest position of character c in s, 0 when absent.
Find(s, c) ==
    IF \E i \in 1..Len(s) : s[i] = c
    THEN CHOOSE i \in 1..Len(s) : s[i] = c /\ \A j \in 1..(i - 1) : s[j] # c
    ELSE 0

\* str.rfind(c): largest position of character c in s, 0 when absent.
RFind(s, c) ==
    IF \E i \in 1..Len(s) : s[i] = c
    THEN CHOOSE i \in 1..Len(s) : s[i] = c /\ \A j \in (i + 1)..Len(s) : s[j] # c
    ELSE 0

\* str.lstrip(chars)
LStrip(s, chars) ==
    IF \A i \in 1..Len(s) : s[i] \in chars
    THEN <<>>
    ELSE From(s, CHOOSE i \in 1..Len(s) :
                    s[i] \notin chars /\ \A j \in 1..(i - 1) : s[j] \in chars)

\* str.rstrip(chars)
RStrip(s, chars) ==
    IF \A i \in 1..Len(s) : s[i] \in chars
    THEN <<>>
    ELSE SubSeq(s, 1, CHOOSE i \in 1..Len(s) :
                    s[i] \notin chars /\ \A j \in (i + 1)..Len(s) : s[j] \in chars)

\* str.strip(chars)
StripChars(s, chars) == RStrip(LStrip(s, chars), chars)

\* str.strip()
Strip(s) == StripChars(s, Whitespace)

\* str.endswith(suf)
EndsWith(s, suf) ==
    Len(s) >= Len(suf) /\ SubSeq(s, Len(s) - Len(suf) + 1, Len(s)) = suf

\* str.startswith(pre)
StartsWith(s, pre) == Len(s) >= Len(pre) /\ SubSeq(s, 1, Len(pre)) = pre

\* str.replace(c, ""): s with every character of chars removed.
RECURSIVE RemoveChars(_, _)
RemoveChars(s, chars) ==
    IF s = <<>> THEN <<>>
    ELSE IF Head(s) \in chars THEN RemoveChars(Tail(s), chars)
         ELSE <<Head(s)>> \o RemoveChars(Tail(s), chars)

\* str.split(c): the pieces of s between occurrences of c (empty pieces kept).
RECURSIVE Split(_, _)
Split(s, c) ==
    LET i == Find(s, c)
    IN  IF i = 0 THEN <<s>>
        ELSE <<Before(s, i)>> \o Split(From(s, i + 1), c)

\* c.join(parts)
RECURSIVE Join(_, _)
Join(parts, c) ==
    IF parts = <<>> THEN <<>>
    ELSE IF Len(parts) = 1 THEN parts[1]
         ELSE parts[1] \o <<c>> \o Join(Tail(parts), c)

\* [p for p in parts if p]
NonEmpty(parts) == SelectSeq(parts, LAMBDA p : p # <<>>)

\* str(n) for n >= 0.
RECURSIVE ToStr(_)
ToStr(n) ==
    LET d == <<"0", "1", "2", "3", "4", "5", "6", "7", "8", "9">>[(n % 10) + 1]
    IN  IF n < 10 THEN <<d>> ELSE ToStr(n \div 10) \o <<d>>


(***************************************************************************)
(* Literals of the program.                                                *)
(***************************************************************************)
WpContent == <<"w", "p", "-", "c", "o", "n", "t", "e", "n", "t">>

Uploads == <<"u", "p", "l", "o", "a", "d", "s">>

Wiki == <<"w", "i", "k", "i">>

Legacy == <<"l", "e", "g", "a", "c", "y">>

CaretM == <<"^", "M">>

\* The CSV header row.
Header == << <<"o", "l", "d", "_", "u", "r", "l">>,
             <<"n", "e", "w", "_", "n", "a", "m", "e">> >>

(***************************************************************************)
(* sanitize_line and the quote stripping of process_file.                  *)
(***************************************************************************)
sanitize_line(line) ==
    LET s == Strip(line)
    IN  IF EndsWith(s, CaretM)
        THEN Strip(RStrip(SubSeq(s, 1, Len(s) - 2), Whitespace))
        ELSE Strip(s)

\* url.strip().strip('"').strip("'").strip()
StripQuotes(url) == Strip(StripChars(StripChars(Strip(url), {"dq"}), {"'"}))

(***************************************************************************)
(* urllib.parse.urlparse(url).path                                         *)
(***************************************************************************)
SchemeChars == AsciiLetters \cup AsciiDigits \cup {"+", "-", "."}

Lower(s) == [i \in 1..Len(s) |-> IF s[i] = "M" THEN "m" ELSE s[i]]

\* Schemes of urllib.parse.uses_params that the model's URLs can carry.
UsesParams == {<<>>, <<"h", "t", "t", "p">>, <<"h", "t", "t", "p", "s">>,
               <<"f", "t", "p">>}

\* Position of the first of the characters "/", "?", "#" at or after `start`,
\* Len(s) + 1 when there is none (_splitnetloc).
NetlocEnd(s, start) ==
    IF \E i \in start..Len(s) : s[i] \in {"/", "?", "#"}
    THEN CHOOSE i \in start..Len(s) :
            s[i] \in {"/", "?", "#"} /\ \A j \in start..(i - 1) : s[j] \notin {"/", "?", "#"}
    ELSE Len(s) + 1

\* str.find(c, start) with 1-based start: 0 when absent.
FindFrom(s, c, start) ==
    IF \E i \in start..Len(s) : s[i] = c
    THEN CHOOSE i \in start..Len(s) : s[i] = c /\ \A j \in start..(i - 1) : s[j] # c
    ELSE 0

\* s[:i] of Python for the position i a find returned: s itself when absent.
CutAt(s, i) == IF i = 0 THEN s ELSE Before(s, i)

\* s.split(c, 1)[0]
UpTo(s, c) == CutAt(s, Find(s, c))

\* The position of the ":" that ends the scheme of u, 0 when u has no scheme:
\* the first ":" is not the first character, u starts with an ASCII letter and
\* only scheme characters precede the ":".
SchemeEndAt(u, colon) ==
    IF /\ colon > 1
       /\ u[1] \in AsciiLetters
       /\ \A j \in 1..(colon - 1) : u[j] \in SchemeChars
    THEN colon ELSE 0

SchemeEnd(u) == SchemeEndAt(u, Find(u, ":"))

\* urlsplit once scheme and netloc are split off: the brackets of the netloc
\* are checked, then fragment and query are cut from the rest.
SplitRest(scheme, netloc, rest) ==
    IF (Find(netloc, "[") # 0) # (Find(netloc, "]") # 0)
    THEN [err |-> "InvalidIPv6", scheme |-> scheme, path |-> <<>>]
    ELSE [err |-> "", scheme |-> scheme, path |-> UpTo(UpTo(rest, "#"), "?")]

\* urlsplit once the scheme is split off: a rest starting with "//" carries a
\* netloc that ends at position delim.
SplitNetloc(scheme, u, delim) ==
    IF StartsWith(u, <<"/", "/">>)
    THEN SplitRest(scheme, SubSeq(u, 3, delim - 1), From(u, delim))
    ELSE SplitRest(scheme, <<>>, u)

SplitAfterScheme(scheme, u) == SplitNetloc(scheme, u, NetlocEnd(u, 3))

SplitSchemeAt(u, i) ==
    SplitAfterScheme(IF i = 0 THEN <<>> ELSE Lower(Before(u, i)),
                     IF i = 0 THEN u ELSE From(u, i + 1))

\* urllib.parse.urlsplit(url): [err, scheme, path].
urlsplit(url) ==
    SplitSchemeAt(RemoveChars(LStrip(url, Whitespace), {"TAB", "CR", "LF"}),
                  SchemeEnd(RemoveChars(LStrip(url, Whitespace), {"TAB", "CR", "LF"})))

\* _splitparams(url)[0], given the position of the last "/" of url (0 when absent).
SplitParamsAt(u, slash) == CutAt(u, FindFrom(u, ";", IF slash = 0 THEN 1 ELSE slash))

\* urlparse cuts the params off the path of a split result.
WithoutParams(sr) ==
    IF sr.err = "" /\ sr.scheme \in UsesParams /\ Find(sr.path, ";") # 0
    THEN [err |-> "", path |-> SplitParamsAt(sr.path, RFind(sr.path, "/"))]
    ELSE [err |-> sr.err, path |-> sr.path]

\* [err, path]: err = "" and parsed.path, or the error urlparse raises.
urlparse(url) == WithoutParams(urlsplit(url))

(***************************************************************************)
(* url_to_new_path                                                         *)
(***************************************************************************)
\* parts.index(x): position of the first element equal to x, 0 when absent.
Index(parts, x) ==
    IF \E i \in 1..Len(parts) : parts[i] = x
    THEN CHOOSE i \in 1..Len(parts) : parts[i] = x /\ \A j \in 1..(i - 1) : parts[j] # x
    ELSE 0

Failure(e) == [err |-> e, path |-> <<>>]

\* Lines 62-71: year and month are checked and the destination is built.
BuildPath(year, month, filename, base_dir) ==
    IF ~(IsDigitStr(year) /\ Len(year) = 4) THEN Failure("InvalidYear")
    ELSE IF ~(IsDigitStr(month) /\ Len(month) = 2) THEN Failure("InvalidMonth")
    ELSE [err  |-> "",
          path |-> base_dir \o <<Wiki, Legacy,
                                 year \o <<"-">> \o month \o <<"-">> \o filename>>]

\* Lines 47-60: idx is the position of the first "wp-content" of parts (0: absent).
DeriveAt(parts, idx, base_dir) ==
    IF idx = 0 THEN Failure("NoWpContent")
    ELSE IF idx + 1 > Len(parts) \/ parts[idx + 1] # Uploads THEN Failure("NoUploads")
    ELSE IF idx + 4 > Len(parts) THEN Failure("TooShort")
    ELSE BuildPath(parts[idx + 2], parts[idx + 3], parts[Len(parts)], base_dir)

\* Lines 44-48
DeriveParts(parts, base_dir) == DeriveAt(parts, Index(parts, WpContent), base_dir)

\* Lines 41-44
DeriveParsed(parsed, base_dir) ==
    IF parsed.err # "" THEN Failure(parsed.err)
    ELSE DeriveParts(NonEmpty(Split(parsed.path, "/")), base_dir)

\* [err, path]: err = "" and the destination path (a sequence of path
\* components), or the tag of the ValueError raised.
url_to_new_path(url, base_dir) == DeriveParsed(urlparse(url), base_dir)

(***************************************************************************)
(* pathlib: name, parent, stem, suffix; unique_path                        *)
(***************************************************************************)
Name(path) == path[Len(path)]

Parent(path) == SubSeq(path, 1, Len(path) - 1)

\* PurePath.suffix: from the last "." of the name, unless that "." is the
\* first or the last character of the name.
Suffix(path) ==
    LET name == Name(path)
        i    == RFind(name, ".")
    IN  IF 1 < i /\ i < Len(name) THEN From(name, i) ELSE <<>>

\* PurePath.stem
Stem(path) ==
    LET name == Name(path)
        i    == RFind(name, ".")
    IN  IF 1 < i /\ i < Len(name) THEN Before(name, i) ELSE name

\* parent / f"{stem}-{n}{suffix}"
Candidate(path, n) ==
    Parent(path) \o <<Stem(path) \o <<"-">> \o ToStr(n) \o Suffix(path)>>

\* The while loop of unique_path, entered with counter n; `existing` is the
\* set of paths at which something exists.
RECURSIVE UniqueLoop(_, _, _)
UniqueLoop(path, n, existing) ==
    IF Candidate(path, n) \notin existing THEN Candidate(path, n)
    ELSE UniqueLoop(path, n + 1, existing)

\* Mutant of unique_path: no existence check at all.
UniquePathUnchecked(path, existing) == path

\* Mutant of unique_path: the counter starts at 1.
UniquePathFromOne(path, existing) ==
    IF path \notin existing THEN path ELSE UniqueLoop(path, 1, existing)

unique_path(path, existing) ==
    IF path \notin existing THEN path ELSE UniqueLoop(path, 2, existing)

(***************************************************************************)
(* Bounds of the model and the inputs drawn within them.                   *)
(***************************************************************************)
\* Largest number of lines of the input file.
MaxLines == 2

\* Largest value of --retries.
MaxRetries == 3

\* Largest number of files that exist in wiki/legacy before the run.
MaxPre == 1

\* Largest number of occupied numbered candidates in the unique_path inputs.
MaxTaken == 9

\* Largest number of path segments of the URLs given to url_to_new_path.
MaxSegs == 5

\* base_dir, already resolved: a sequence of path components.
BaseDir == << <<"b">> >>

HttpH == <<"h", "t", "t", "p", ":", "/", "/", "h">>

HttpG == <<"h", "t", "t", "p", ":", "/", "/", "g">>

Y2022 == <<"2", "0", "2", "2">>

M07 == <<"0", "7">>

FileA == <<"a", ".", "g", "z">>

\* /wp-content/uploads/2022/07/a.gz
UploadPath == <<"/">> \o Join(<<WpContent, Uploads, Y2022, M07, FileA>>, "/")

\* The raw lines an input file is made of.
LinePool ==
    { HttpH \o UploadPath \o <<"LF">>,
      <<" ", "dq">> \o HttpG \o UploadPath \o <<"dq", "^", "M", "CR", "LF">>,
      UploadPath \o <<"LF">>,
      HttpH \o <<"/">> \o FileA \o <<"LF">>,
      <<"dq", "dq", "LF">>,
      <<" ", "^", "M", "LF">> }

RECURSIVE SeqsUpTo(_, _)
SeqsUpTo(S, n) ==
    IF n = 0 THEN {<<>>}
    ELSE LET shorter == SeqsUpTo(S, n - 1)
         IN  shorter \cup {Append(q, x) : q \in {r \in shorter : Len(r) = n - 1}, x \in S}

\* The destination derived from the valid lines of LinePool.
DestA == BaseDir \o <<Wiki, Legacy, Y2022 \o <<"-">> \o M07 \o <<"-">> \o FileA>>

\* A file: its path, the URL its body came from, whether the body is complete.
File(p, u, c) == [path |-> p, url |-> u, complete |-> c]

\* The paths at which a file of files exists.
Paths(files) == {f.path : f \in files}

\* open(p, "wb") and the writes that follow: the file at p is created or replaced.
Put(files, p, u, c) == {f \in files : f.path # p} \cup {File(p, u, c)}

\* The files before the run: DestA and its first numbered candidates.
PreFiles(k) ==
    IF k = 0 THEN {}
    ELSE {File(p, <<"o", "l", "d">>, TRUE) : p \in {DestA} \cup {Candidate(DestA, n) : n \in 2..k}}

WikiDirs == {BaseDir \o <<Wiki>>, BaseDir \o <<Wiki, Legacy>>}

\* Outcomes of one attempt that the except clause of download catches:
\*   HTTPError      status >= 400 (raised by urlopen or by line 102)
\*   URLError       connection failure or timeout raised by urlopen
\*   TimeoutError   timeout of resp.read(), after the destination is opened
Caught == {"HTTPError", "URLError", "TimeoutError"}

\* An exception of an attempt outside the except clause: an OSError of
\* f.write() or a connection reset in resp.read(), after the destination is opened.
Uncaught == {"OSError"}

\* Outcomes after which the destination file exists with an incomplete body.
LeavesPartial == {"TimeoutError", "OSError"}

\* io.DEFAULT_BUFFER_SIZE: bytes the output CSV handle buffers before writing.
BufferSize == 8192

(***************************************************************************)
(* State.                                                                  *)
(***************************************************************************)
VARIABLES
    lines,      \* the input file: a sequence of raw lines
    retries,    \* --retries
    pc,         \* "loop", "download", "done", "killed"; "call", "return" in the function specifications
    lineno,     \* number of the line last read (0 before the first)
    url,        \* process_file's url
    new_path,   \* process_file's new_path: the destination of the download
    attempt,    \* download's loop variable
    sleeps,     \* the arguments of download's time.sleep calls, in order
    last_err,   \* download's last_err: the outcome of the latest failed attempt, "" for None
    dl,         \* download of the current line: "none", "running", "returned" or the exception it raised
    tries,      \* history: attempts the current download has made
    outcome,    \* history: outcome of its latest attempt, "" before the first
    fs,         \* files: a set of [path, url, complete]
    fs0,        \* the files as they were when the current line was read
    dirs,       \* existing directories
    csvBuf,     \* rows written to the CSV handle and still buffered
    csvDisk,    \* rows of the output CSV on disk
    ok,         \* process_file's ok
    failed,     \* process_file's failed
    stdout,     \* [OK] lines: <<url, rel>>
    stderr,     \* [FAIL:n] lines: [lineno, url]
    log,        \* per line read: "skip", "ok" or "fail"
    arg,        \* argument of the function under check (function specifications)
    res         \* its result, <<>> before the call

vars == <<lines, retries, pc, lineno, url, new_path, attempt, sleeps, last_err, dl,
          tries, outcome, fs, fs0, dirs, csvBuf, csvDisk, ok, failed, stdout, stderr, log, arg, res>>

inputVars == <<lines, retries>>

pureVars == <<arg, res>>

dlVars == <<attempt, sleeps, last_err>>

histVars == <<tries, outcome>>

csvVars == <<csvBuf, csvDisk, stdout, ok>>

(***************************************************************************)
(* process_file                                                            *)
(***************************************************************************)
\* State once process_file has opened both files and written the header.
Init ==
    /\ lines \in SeqsUpTo(LinePool, MaxLines)
    /\ retries \in (0 - 1)..MaxRetries
    /\ pc = "loop"
    /\ lineno = 0
    /\ url = <<>>
    /\ new_path = <<>>
    /\ attempt = 0
    /\ sleeps = <<>>
    /\ last_err = ""
    /\ dl = "none"
    /\ tries = 0
    /\ outcome = ""
    /\ \E k \in 0..MaxPre : /\ fs = PreFiles(k)
                            /\ dirs = IF k = 0 THEN {BaseDir} ELSE {BaseDir} \cup WikiDirs
    /\ fs0 = fs
    /\ csvBuf = <<Header>>
    /\ csvDisk = <<>>
    /\ ok = 0
    /\ failed = 0
    /\ stdout = <<>>
    /\ stderr = <<>>
    /\ log = <<>>
    /\ arg = <<>>
    /\ res = <<>>

\* Bytes of a CSV row: the fields, the comma and the "\r\n" terminator.
RowBytes(row) == Len(row[1]) + 1 + Len(row[2]) + 2

RECURSIVE Bytes(_)
Bytes(rows) == IF rows = <<>> THEN 0 ELSE RowBytes(Head(rows)) + Bytes(Tail(rows))

\* Mutant of WriteRow: a URL that already has a row gets no second one.
WriteRowOnce(row) ==
    IF \E i \in 1..Len(csvBuf) : csvBuf[i][1] = row[1]
    THEN UNCHANGED <<csvBuf, csvDisk>>
    ELSE csvBuf' = Append(csvBuf, row) /\ csvDisk' = csvDisk

\* writer.writerow(row): the row is buffered; the buffer goes to disk only
\* once it holds more than BufferSize bytes.
WriteRow(row) ==
    IF Bytes(Append(csvBuf, row)) > BufferSize
    THEN /\ csvDisk' = csvDisk \o Append(csvBuf, row)
         /\ csvBuf' = <<>>
    ELSE /\ csvBuf' = Append(csvBuf, row)
         /\ csvDisk' = csvDisk

\* str(new_path.relative_to(base_dir))
Rel(path) == Join(SubSeq(path, Len(BaseDir) + 1, Len(path)), "/")

\* Lines 147-150: the mapping row, ok += 1, the [OK] line.
RecordSuccess(u, path) ==
    /\ WriteRow(<<u, Rel(path)>>)
    /\ ok' = ok + 1
    /\ stdout' = Append(stdout, <<u, Rel(path)>>)
    /\ log' = Append(log, "ok")
    /\ UNCHANGED <<failed, stderr>>

\* Mutant of RecordFailure: the line number is counted from 0.
RecordFailureFromZero(n, u) ==
    /\ failed' = failed + 1
    /\ stderr' = Append(stderr, [lineno |-> n - 1, url |-> u])
    /\ log' = Append(log, "fail")
    /\ UNCHANGED csvVars

\* Lines 151-154: failed += 1, the [FAIL:lineno] line with the url (the text of
\* the exception is not recorded here).
RecordFailure(n, u) ==
    /\ failed' = failed + 1
    /\ stderr' = Append(stderr, [lineno |-> n, url |-> u])
    /\ log' = Append(log, "fail")
    /\ UNCHANGED csvVars

\* urllib.request.Request(url) raises ValueError unless url starts with "<scheme>:".
HasType(u) ==
    LET colon == Find(u, ":")
    IN  colon > 1 /\ \A j \in 1..(colon - 1) : u[j] # "/"

\* The next raw line and the url lines 134-139 make of it.
NextRaw == lines[lineno + 1]

NextUrl == StripQuotes(sanitize_line(NextRaw))

\* Something exists at these paths.
Existing == Paths(fs) \cup dirs

CanRead == pc = "loop" /\ lineno < Len(lines)

\* Every line read leaves download's locals behind and is the start of a new
\* per-line snapshot of the files.
ReadNext ==
    /\ lineno' = lineno + 1
    /\ attempt' = 0 /\ sleeps' = <<>> /\ last_err' = ""
    /\ tries' = 0 /\ outcome' = ""
    /\ fs0' = fs

\* Lines 133-136: a line that sanitize_line empties is skipped.
SkipLine ==
    /\ CanRead
    /\ sanitize_line(NextRaw) = <<>>
    /\ ReadNext
    /\ log' = Append(log, "skip")
    /\ dl' = "none"
    /\ UNCHANGED <<inputVars, pureVars, pc, url, new_path, fs, dirs, csvVars, failed, stderr>>

\* Lines 139-142, 151-154: url_to_new_path raises.
RejectLine ==
    /\ CanRead
    /\ sanitize_line(NextRaw) # <<>>
    /\ \E d \in {url_to_new_path(NextUrl, BaseDir)} :
          /\ d.err # ""
          /\ RecordFailure(lineno + 1, NextUrl)
    /\ ReadNext
    /\ url' = NextUrl
    /\ dl' = "none"
    /\ UNCHANGED <<inputVars, pureVars, pc, new_path, fs, dirs>>

\* Lines 139-144, 91-95: the path is derived (wiki/legacy is created) and
\* resolved, and download raises ValueError building the Request.
BadRequest ==
    /\ CanRead
    /\ sanitize_line(NextRaw) # <<>>
    /\ ~HasType(NextUrl)
    /\ \E d \in {url_to_new_path(NextUrl, BaseDir)} :
          /\ d.err = ""
          /\ new_path' = unique_path(d.path, Existing \cup WikiDirs)
    /\ ReadNext
    /\ url' = NextUrl
    /\ dirs' = dirs \cup WikiDirs
    /\ RecordFailure(lineno + 1, NextUrl)
    /\ dl' = "ValueError"
    /\ UNCHANGED <<inputVars, pureVars, pc, fs>>

\* Lines 139-150, 97-98, 120: range(1, retries + 1) is empty, download returns
\* at once and the line is recorded as a success.
NoAttempt ==
    /\ CanRead
    /\ sanitize_line(NextRaw) # <<>>
    /\ HasType(NextUrl)
    /\ retries < 1
    /\ \E d \in {url_to_new_path(NextUrl, BaseDir)} :
          /\ d.err = ""
          /\ \E p \in {unique_path(d.path, Existing \cup WikiDirs)} :
                /\ new_path' = p
                /\ RecordSuccess(NextUrl, p)
    /\ ReadNext
    /\ url' = NextUrl
    /\ dirs' = dirs \cup WikiDirs
    /\ dl' = "returned"
    /\ UNCHANGED <<inputVars, pureVars, pc, fs>>

\* Lines 139-144, 97-98: download enters its loop with attempt = 1.
StartDownload ==
    /\ CanRead
    /\ sanitize_line(NextRaw) # <<>>
    /\ HasType(NextUrl)
    /\ retries >= 1
    /\ \E d \in {url_to_new_path(NextUrl, BaseDir)} :
          /\ d.err = ""
          /\ new_path' = unique_path(d.path, Existing \cup WikiDirs)
    /\ lineno' = lineno + 1
    /\ attempt' = 1 /\ sleeps' = <<>> /\ last_err' = ""
    /\ tries' = 0 /\ outcome' = ""
    /\ fs0' = fs
    /\ url' = NextUrl
    /\ dirs' = dirs \cup WikiDirs
    /\ pc' = "download"
    /\ dl' = "running"
    /\ UNCHANGED <<inputVars, pureVars, fs, csvVars, failed, stderr, log>>

(***************************************************************************)
(* download: one action per attempt of the loop of lines 98-118.           *)
(***************************************************************************)
\* Mutant of ShouldRetry: one attempt too many.
ShouldRetryOnceMore(a, r) == a <= r

\* Line 115: whether a caught failure of this attempt is followed by another attempt.
ShouldRetry(a, r) == a < r

\* Line 116: the argument of time.sleep after failed attempt a.
SleepTime(a) == 1 * a

\* The files after an attempt with outcome kind.
AfterAttempt(kind) ==
    IF kind = "ok" THEN Put(fs, new_path, url, TRUE)
    ELSE IF kind \in LeavesPartial THEN Put(fs, new_path, url, FALSE)
    ELSE fs

\* download is left by return or raise: its locals attempt and last_err are gone.
Return == attempt' = 0 /\ last_err' = ""

\* Lines 100-112, 145-150: the attempt succeeds, download returns and the
\* line is recorded.
AttemptOk ==
    /\ pc = "download"
    /\ fs' = AfterAttempt("ok")
    /\ tries' = tries + 1 /\ outcome' = "ok"
    /\ dl' = "returned"
    /\ RecordSuccess(url, new_path)
    /\ Return
    /\ pc' = "loop"
    /\ UNCHANGED <<inputVars, pureVars, lineno, url, new_path, sleeps, fs0, dirs>>

\* Lines 113-116: a caught failure before the last attempt: sleep, next attempt.
AttemptRetry(kind) ==
    /\ pc = "download"
    /\ ShouldRetry(attempt, retries)
    /\ fs' = AfterAttempt(kind)
    /\ tries' = tries + 1 /\ outcome' = kind
    /\ last_err' = kind
    /\ sleeps' = Append(sleeps, SleepTime(attempt))
    /\ attempt' = attempt + 1
    /\ UNCHANGED <<inputVars, pureVars, pc, lineno, url, new_path, dl, fs0, dirs,
                   csvVars, failed, stderr, log>>

\* Lines 113-118, 151-154: a caught failure of the last attempt is re-raised
\* and the line is recorded as failed.
AttemptRaise(kind) ==
    /\ pc = "download"
    /\ ~ShouldRetry(attempt, retries)
    /\ fs' = AfterAttempt(kind)
    /\ tries' = tries + 1 /\ outcome' = kind
    /\ dl' = kind
    /\ RecordFailure(lineno, url)
    /\ Return
    /\ pc' = "loop"
    /\ UNCHANGED <<inputVars, pureVars, lineno, url, new_path, sleeps, fs0, dirs>>

\* Lines 106-111, 151-154: an exception the except clause does not name
\* leaves download at once and the line is recorded as failed.
AttemptAbort(kind) ==
    /\ pc = "download"
    /\ fs' = AfterAttempt(kind)
    /\ tries' = tries + 1 /\ outcome' = kind
    /\ dl' = kind
    /\ RecordFailure(lineno, url)
    /\ Return
    /\ pc' = "loop"
    /\ UNCHANGED <<inputVars, pureVars, lineno, url, new_path, sleeps, fs0, dirs>>

\* Lines 128-129, 156: the input is exhausted; leaving the with block closes
\* the CSV handle, which writes the buffered rows.
Finish ==
    /\ pc = "loop"
    /\ lineno = Len(lines)
    /\ csvDisk' = csvDisk \o csvBuf
    /\ csvBuf' = <<>>
    /\ pc' = "done"
    /\ UNCHANGED <<inputVars, pureVars, lineno, url, new_path, dlVars, histVars, dl, fs, fs0, dirs,
                   ok, failed, stdout, stderr, log>>

\* The process is terminated abruptly: buffered rows never reach the disk.
Kill ==
    /\ pc \in {"loop", "download"}
    /\ pc' = "killed"
    /\ UNCHANGED <<inputVars, pureVars, lineno, url, new_path, dlVars, histVars, dl, fs, fs0, dirs,
                   csvVars, failed, stderr, log>>

Next ==
    \/ SkipLine
    \/ RejectLine
    \/ BadRequest
    \/ NoAttempt
    \/ StartDownload
    \/ AttemptOk
    \/ \E kind \in Caught : AttemptRetry(kind)
    \/ \E kind \in Caught : AttemptRaise(kind)
    \/ \E kind \in Uncaught : AttemptAbort(kind)
    \/ Finish
    \/ Kill

Spec == Init /\ [][Next]_vars

(***************************************************************************)
(* Specifications of the pure functions: the argument is drawn in the      *)
(* initial state and one action applies the function to it.                *)
(***************************************************************************)
\* The variables of process_file, unused by the function specifications.
Idle ==
    /\ lines = <<>> /\ retries = 0 /\ lineno = 0
    /\ url = <<>> /\ new_path = <<>>
    /\ attempt = 0 /\ sleeps = <<>> /\ last_err = "" /\ dl = "none"
    /\ tries = 0 /\ outcome = ""
    /\ fs = {} /\ fs0 = {} /\ dirs = {}
    /\ csvBuf = <<>> /\ csvDisk = <<>>
    /\ ok = 0 /\ failed = 0 /\ stdout = <<>> /\ stderr = <<>> /\ log = <<>>

procVars == <<lines, retries, lineno, url, new_path, attempt, sleeps, last_err, dl,
              tries, outcome, fs, fs0, dirs, csvBuf, csvDisk, ok, failed, stdout, stderr, log>>

SupYear == <<"sup2", "0", "sup2", "sup2">>

\* Path segments of the URLs given to url_to_new_path.
SegPool == {WpContent, Uploads, Y2022, M07, FileA, SupYear}

\* What precedes and what follows the segments in those URLs: a scheme and
\* host, no scheme with a query and a fragment, an empty segment with params,
\* query and fragment, and an earlier "wp-content" directory.
UrlShapes ==
    { <<HttpH \o <<"/">>, <<>>>>,
      <<<<"/">>, <<"?", "q", "/", "z", "#", "f">>>>,
      <<HttpH \o <<"/", "/">>, <<";", "p", "?", "q", "#", "/", "f">>>>,
      <<HttpH \o <<"/">> \o WpContent \o <<"/">>, <<>>>> }

InitDerive ==
    /\ pc = "call"
    /\ \E sh \in UrlShapes :
          \E segs \in SeqsUpTo(SegPool, MaxSegs) :
             arg = sh[1] \o Join(segs, "/") \o sh[2]
    /\ res = <<>>
    /\ Idle

\* url_to_new_path(arg, base_dir)
Derive ==
    /\ pc = "call"
    /\ res' = url_to_new_path(arg, BaseDir)
    /\ pc' = "return"
    /\ UNCHANGED <<arg, procVars>>

NextDerive == Derive

SpecDerive == InitDerive /\ [][NextDerive]_vars

\* File names of the paths given to unique_path.
NamePool ==
    { FileA, <<"a">>, <<".", "b">>, <<"a", ".">>, <<"a", ".", "b", ".", "g", "z">> }

InitUnique ==
    /\ pc = "call"
    /\ \E name \in NamePool :
          \E p \in {BaseDir \o <<Wiki, Legacy, name>>} :
             \E here \in SUBSET {p} :
                \E taken \in SUBSET {Candidate(p, n) : n \in 2..(MaxTaken + 1)} :
                   arg = [path |-> p, existing |-> WikiDirs \cup here \cup taken]
    /\ res = <<>>
    /\ Idle

\* unique_path(arg.path) on a file system where arg.existing exist.
Resolve ==
    /\ pc = "call"
    /\ res' = unique_path(arg.path, arg.existing)
    /\ pc' = "return"
    /\ UNCHANGED <<arg, procVars>>

NextUnique == Resolve

SpecUnique == InitUnique /\ [][NextUnique]_vars

(***************************************************************************)
(* Properties.                                                             *)
(***************************************************************************)
\* The url process_file makes of line i of the input.
UrlOfLine(i) == StripQuotes(sanitize_line(lines[i]))

\* <<1, 2, ..., n>>
RECURSIVE Counting(_)
Counting(n) == IF n <= 0 THEN <<>> ELSE Append(Counting(n - 1), n)

\* s is exactly n decimal digits.
IsDecimal(s, n) == Len(s) = n /\ \A i \in 1..n : s[i] \in AsciiDigits

\* The shape C1 asks of the non-empty path segments, with "wp-content" first at i.
UploadShapeAt(parts, i) ==
    /\ parts[i] = WpContent
    /\ \A j \in 1..(i - 1) : parts[j] # WpContent
    /\ i + 4 <= Len(parts)
    /\ parts[i + 1] = Uploads
    /\ IsDecimal(parts[i + 2], 4)
    /\ IsDecimal(parts[i + 3], 2)

\* What C1 says url_to_new_path makes of these segments.
DerivesAsClaimed(parts, r) ==
    IF \E i \in 1..Len(parts) : UploadShapeAt(parts, i)
    THEN \E i \in 1..Len(parts) :
            /\ UploadShapeAt(parts, i)
            /\ r = [err  |-> "",
                    path |-> BaseDir \o <<Wiki, Legacy,
                                parts[i + 2] \o <<"-">> \o parts[i + 3] \o <<"-">>
                                    \o parts[Len(parts)]>>]
    ELSE r.err # ""

\* C1: url_to_new_path succeeds exactly when the non-empty segments of the
\* URL's path hold "wp-content", then (after its first occurrence) "uploads",
\* exactly 4 decimal digits, exactly 2 decimal digits and at least one more
\* segment, and then returns base_dir/wiki/legacy/<year>-<month>-<last
\* segment>; in every other case it fails with a validation error.
C1_DerivesExactlyUploadShape ==
    pc = "return" => DerivesAsClaimed(NonEmpty(Split(urlparse(arg).path, "/")), res)

RECURSIVE SuccessUrls(_)
SuccessUrls(n) ==
    IF n = 0 THEN <<>>
    ELSE IF log[n] = "ok" THEN Append(SuccessUrls(n - 1), UrlOfLine(n))
         ELSE SuccessUrls(n - 1)

\* The first fields of rows.
RECURSIVE FirstFields(_)
FirstFields(rows) ==
    IF rows = <<>> THEN <<>> ELSE <<Head(rows)[1]>> \o FirstFields(Tail(rows))

\* C3: when process_file has returned, the data rows of the output CSV are
\* exactly the urls of the successfully processed lines, one row per line, in
\* input order; failed lines have no row and equal urls are not merged.
C3_RowsAreSuccessesInOrder ==
    pc = "done" =>
        /\ csvDisk # <<>>
        /\ FirstFields(Tail(csvDisk)) = SuccessUrls(Len(lines))

\* Witness of C3: a run that returned with a failed line followed by a
\* successful one.
C3_Witness ==
    /\ pc = "done"
    /\ log = <<"fail", "ok">>
    /\ Len(csvDisk) = 2

\* The data rows written so far, buffered or on disk.
DataRows == Tail(csvDisk \o csvBuf)

\* Complete files that this run wrote.
Downloaded == {f \in fs : f.complete /\ f \notin PreFiles(MaxPre + 1)}

\* C4: for every value of --retries (0 and negative values included) each
\* data row (url, new_name) names a file base_dir/new_name that exists and
\* holds the complete body of a successful response for url, and the OK count
\* is the number of such downloads.
C4_RowsNameDownloadedFiles ==
    /\ \A i \in 1..Len(DataRows) :
          File(BaseDir \o Split(DataRows[i][2], "/"), DataRows[i][1], TRUE) \in fs
    /\ ok = Cardinality(Downloaded)

\* C5: a line that is empty after trimming, removing a trailing "^M",
\* trimming again and stripping surrounding quotes is skipped: no CSV row, no
\* diagnostic, and neither ok nor failed is incremented.
C5_EmptyLinesSkipped ==
    \A i \in 1..Len(log) :
        UrlOfLine(i) = <<>> =>
            /\ log[i] = "skip"
            /\ \A k \in 1..Len(stderr) : stderr[k].lineno # i

\* The numbers of the first n lines that were recorded as failures, in order.
RECURSIVE FailedLines(_)
FailedLines(n) ==
    IF n = 0 THEN <<>>
    ELSE IF log[n] = "fail" THEN Append(FailedLines(n - 1), n)
         ELSE FailedLines(n - 1)

\* The line numbers of the [FAIL:n] diagnostics.
RECURSIVE LineNumbers(_)
LineNumbers(errs) ==
    IF errs = <<>> THEN <<>> ELSE <<Head(errs).lineno>> \o LineNumbers(Tail(errs))

\* C6: process_file handles every line exactly once, in input order; a
\* failure of any kind on a line adds one to failed, is reported with that
\* line's number and never keeps a later line from being processed; when
\* process_file returns, ok + failed is the number of lines not skipped as empty.
C6_EveryLineHandledOnce ==
    /\ Len(log) = (IF dl = "running" THEN lineno - 1 ELSE lineno)
    /\ failed = Cardinality({i \in 1..Len(log) : log[i] = "fail"})
    /\ LineNumbers(stderr) = FailedLines(Len(log))
    /\ ok = Cardinality({i \in 1..Len(log) : log[i] = "ok"})
    /\ dl \in Caught \cup Uncaught \cup {"ValueError"} => pc \in {"loop", "done", "killed"}
    /\ pc = "done" =>
          /\ lineno = Len(lines)
          /\ Len(log) = Len(lines)
          /\ ok + failed =
                Cardinality({i \in 1..Len(lines) : sanitize_line(lines[i]) # <<>>})

\* Witness of C6: a run that returned after a line whose download failed was
\* followed by a line that was processed.
C6_Witness ==
    /\ pc = "done"
    /\ Len(log) = 2
    /\ log[1] = "fail"
    /\ url_to_new_path(UrlOfLine(1), BaseDir).err = ""
    /\ HasType(UrlOfLine(1))
    /\ log[2] # "skip"

\* The numbered candidates of path that unique_path passes over before n.
PassedOver(path, n, existing) == \A m \in 2..(n - 1) : Candidate(path, m) \in existing

\* C7: unique_path returns a path at which nothing exists: `path` itself when
\* nothing exists there, otherwise <stem>-<n><suffix> in the same directory
\* for the smallest n >= 2 that is unoccupied, every candidate 2 .. n-1 being
\* occupied.
C7_UniquePathIsFirstFree ==
    pc = "return" =>
        /\ res \notin arg.existing
        /\ arg.path \notin arg.existing => res = arg.path
        /\ arg.path \in arg.existing =>
              \E n \in 2..(MaxTaken + 2) :
                  /\ res = Candidate(arg.path, n)
                  /\ PassedOver(arg.path, n, arg.existing)

\* Witness of C7: x.gz and x-2.gz are occupied and x-3.gz is returned.
C7_Witness ==
    /\ pc = "return"
    /\ arg.path \in arg.existing
    /\ Candidate(arg.path, 2) \in arg.existing
    /\ res = Candidate(arg.path, 3)
    /\ Name(res) = <<"a", "-", "3", ".", "g", "z">>

\* C8: when download ends in a failure, no file is left at the destination.
C8_NoFileAfterFailure ==
    dl \in Caught \cup Uncaught => new_path \notin Paths(fs)

\* C9: the header is on disk even with no data row, and each row is flushed
\* as it is written: when the process is terminated abruptly, the CSV on disk
\* holds the header and exactly the rows of the URLs completed so far.
C9_RowsOnDiskWhenKilled ==
    pc = "killed" => csvDisk = <<Header>> \o stdout

\* C10: the destination chosen for a line does not exist when the line's
\* download starts writing, so no file that existed before the run or was
\* written for an earlier line is overwritten, and wiki/legacy exists before
\* a file is written into it.
C10_NoOverwrite ==
    /\ dl # "none" => new_path \notin Paths(fs0)
    /\ pc = "download" /\ tries = 0 => new_path \notin Paths(fs)
    /\ fs0 \subseteq fs
    /\ pc = "download" => Parent(new_path) \in dirs
    /\ \A f \in fs : Parent(f.path) \in dirs

\* Witness of C10: two lines with different urls derived the same name and
\* both were downloaded, to different paths, next to a file from before the run.
C10_Witness ==
    /\ pc = "done"
    /\ PreFiles(1) \subseteq fs
    /\ \E f \in fs : \E g \in fs :
          /\ f.complete /\ g.complete
          /\ StartsWith(f.url, HttpH) /\ StartsWith(g.url, HttpG)
          /\ f.path # g.path

=============================================================================
